---- MODULE Spec2Model ----
(***************************************************************************)
(* Model of src/services/dns/record_list.rs: the DomainRecordList request  *)
(* builder, its Endpoint implementation (service, action, version, region, *)
(* payload) and the serde decoding of DomainRecordListResponse.            *)
(***************************************************************************)
EXTENDS Integers, Sequences, FiniteSets, TLC

VARIABLES reqs, ret, calls, called, lastArg, dom0, doc, out, edits

vars == <<reqs, ret, calls, called, lastArg, dom0, doc, out, edits>>

builderVars == <<reqs, ret, calls, called, lastArg, dom0>>

decoderVars == <<doc, out, edits>>

(***************************************************************************)
(* Bounds and input domains.                                               *)
(***************************************************************************)
\* setter calls explored in a single-descriptor run
MaxCalls == 4

\* setter calls explored in a run with two descriptors
MaxCallsMulti == 2

\* records in the RecordList array of a template response
MaxRecords == 2

\* fields of a template response that the provider changes or leaves out
MaxEdits == 1

Domains == {"dnspod.cn", "example.com"}

Strs == {"", "www"}

U64s == {0, 81345824}

U32s == {0, 100}

(***************************************************************************)
(* Option<T> and serde_json::Value.                                        *)
(***************************************************************************)
None == [some |-> FALSE]

Some(x) == [some |-> TRUE, v |-> x]

JNull == [t |-> "null"]

JNum(x) == [t |-> "num", n |-> x]

JStr(x) == [t |-> "str", s |-> x]

JBool(x) == [t |-> "bool", b |-> x]

JObj(map) == [t |-> "obj", m |-> map]

JArr(seq) == [t |-> "arr", a |-> seq]

\* payload["K"] = v on a Value::Object: insert or overwrite the key
Insert(obj, k, x) ==
    JObj([key \in DOMAIN obj.m \cup {k} |-> IF key = k THEN x ELSE obj.m[key]])

HasKey(obj, k) == obj.t = "obj" /\ k \in DOMAIN obj.m

(***************************************************************************)
(* DomainRecordList: the request descriptor and its builder.               *)
(***************************************************************************)
OptFields ==
    {"domain_id", "subdomain", "record_type", "record_line", "record_line_id",
     "group_id", "keyword", "sort_field", "sort_type", "offset", "limit"}

new(domain) ==
    [domain |-> domain, domain_id |-> None, subdomain |-> None,
     record_type |-> None, record_line |-> None, record_line_id |-> None,
     group_id |-> None, keyword |-> None, sort_field |-> None,
     sort_type |-> None, offset |-> None, limit |-> None]

with_domain_id(self, domain_id) == [self EXCEPT !.domain_id = Some(domain_id)]

with_subdomain(self, subdomain) == [self EXCEPT !.subdomain = Some(subdomain)]

with_record_type(self, record_type) == [self EXCEPT !.record_type = Some(record_type)]

with_record_line(self, record_line) == [self EXCEPT !.record_line = Some(record_line)]

\* with_record_line_id assigning the neighbouring field record_line
with_record_line_id_swapped(self, record_line_id) ==
    [self EXCEPT !.record_line = Some(record_line_id)]

with_record_line_id(self, record_line_id) ==
    [self EXCEPT !.record_line_id = Some(record_line_id)]

with_group_id(self, group_id) == [self EXCEPT !.group_id = Some(group_id)]

with_keyword(self, keyword) == [self EXCEPT !.keyword = Some(keyword)]

with_sort_field(self, sort_field) == [self EXCEPT !.sort_field = Some(sort_field)]

with_sort_type(self, sort_type) == [self EXCEPT !.sort_type = Some(sort_type)]

with_offset(self, offset) == [self EXCEPT !.offset = Some(offset)]

with_limit(self, limit) == [self EXCEPT !.limit = Some(limit)]

(***************************************************************************)
(* impl Endpoint for DomainRecordList.                                     *)
(***************************************************************************)
service(self) == "dnspod"

\* action() choosing the action name by the filters set
action_by_filter(self) ==
    IF self.record_type.some THEN "DescribeRecordFilterList" ELSE "DescribeRecordList"

action(self) == "DescribeRecordList"

version(self) == "2021-03-23"

region(self) == None

\* payload() leaving out an Offset of 0
payload_skip_zero(self) ==
    LET p0 == JObj([k \in {"Domain"} |-> JStr(self.domain)])
        p1 == IF self.domain_id.some THEN Insert(p0, "DomainId", JNum(self.domain_id.v)) ELSE p0
        p2 == IF self.subdomain.some THEN Insert(p1, "Subdomain", JStr(self.subdomain.v)) ELSE p1
        p3 == IF self.record_type.some THEN Insert(p2, "RecordType", JStr(self.record_type.v)) ELSE p2
        p4 == IF self.record_line.some THEN Insert(p3, "RecordLine", JStr(self.record_line.v)) ELSE p3
        p5 == IF self.record_line_id.some THEN Insert(p4, "RecordLineId", JStr(self.record_line_id.v)) ELSE p4
        p6 == IF self.group_id.some THEN Insert(p5, "GroupId", JNum(self.group_id.v)) ELSE p5
        p7 == IF self.keyword.some THEN Insert(p6, "Keyword", JStr(self.keyword.v)) ELSE p6
        p8 == IF self.sort_field.some THEN Insert(p7, "SortField", JStr(self.sort_field.v)) ELSE p7
        p9 == IF self.sort_type.some THEN Insert(p8, "SortType", JStr(self.sort_type.v)) ELSE p8
        p10 == IF self.offset.some /\ self.offset.v # 0
               THEN Insert(p9, "Offset", JNum(self.offset.v)) ELSE p9
        p11 == IF self.limit.some THEN Insert(p10, "Limit", JNum(self.limit.v)) ELSE p10
    IN  p11

\* payload() writing the sort type under the key SortField
payload_wrong_key(self) ==
    LET p0 == JObj([k \in {"Domain"} |-> JStr(self.domain)])
        p1 == IF self.domain_id.some THEN Insert(p0, "DomainId", JNum(self.domain_id.v)) ELSE p0
        p2 == IF self.subdomain.some THEN Insert(p1, "Subdomain", JStr(self.subdomain.v)) ELSE p1
        p3 == IF self.record_type.some THEN Insert(p2, "RecordType", JStr(self.record_type.v)) ELSE p2
        p4 == IF self.record_line.some THEN Insert(p3, "RecordLine", JStr(self.record_line.v)) ELSE p3
        p5 == IF self.record_line_id.some THEN Insert(p4, "RecordLineId", JStr(self.record_line_id.v)) ELSE p4
        p6 == IF self.group_id.some THEN Insert(p5, "GroupId", JNum(self.group_id.v)) ELSE p5
        p7 == IF self.keyword.some THEN Insert(p6, "Keyword", JStr(self.keyword.v)) ELSE p6
        p8 == IF self.sort_field.some THEN Insert(p7, "SortField", JStr(self.sort_field.v)) ELSE p7
        p9 == IF self.sort_type.some THEN Insert(p8, "SortField", JStr(self.sort_type.v)) ELSE p8
        p10 == IF self.offset.some THEN Insert(p9, "Offset", JNum(self.offset.v)) ELSE p9
        p11 == IF self.limit.some THEN Insert(p10, "Limit", JNum(self.limit.v)) ELSE p10
    IN  p11

payload(self) ==
    LET p0 == JObj([k \in {"Domain"} |-> JStr(self.domain)])
        p1 == IF self.domain_id.some THEN Insert(p0, "DomainId", JNum(self.domain_id.v)) ELSE p0
        p2 == IF self.subdomain.some THEN Insert(p1, "Subdomain", JStr(self.subdomain.v)) ELSE p1
        p3 == IF self.record_type.some THEN Insert(p2, "RecordType", JStr(self.record_type.v)) ELSE p2
        p4 == IF self.record_line.some THEN Insert(p3, "RecordLine", JStr(self.record_line.v)) ELSE p3
        p5 == IF self.record_line_id.some THEN Insert(p4, "RecordLineId", JStr(self.record_line_id.v)) ELSE p4
        p6 == IF self.group_id.some THEN Insert(p5, "GroupId", JNum(self.group_id.v)) ELSE p5
        p7 == IF self.keyword.some THEN Insert(p6, "Keyword", JStr(self.keyword.v)) ELSE p6
        p8 == IF self.sort_field.some THEN Insert(p7, "SortField", JStr(self.sort_field.v)) ELSE p7
        p9 == IF self.sort_type.some THEN Insert(p8, "SortType", JStr(self.sort_type.v)) ELSE p8
        p10 == IF self.offset.some THEN Insert(p9, "Offset", JNum(self.offset.v)) ELSE p9
        p11 == IF self.limit.some THEN Insert(p10, "Limit", JNum(self.limit.v)) ELSE p10
    IN  p11

(***************************************************************************)
(* Builder state machine.  reqs[i] is the descriptor bound to call site i; *)
(* ret is the value returned by the last call; called, lastArg and dom0    *)
(* record the calls made so far (which setters ran on i, the last argument *)
(* of each, the domain given to new).                                      *)
(***************************************************************************)
NoRet == [op |-> "none", inst |-> 0, val |-> None]

Accessors == {"service", "action", "version", "region", "payload"}

\* one builder step on descriptor i: self is replaced by the returned Self
Setter(i, field, arg, next) ==
    /\ calls > 0
    /\ calls' = calls - 1
    /\ reqs' = [reqs EXCEPT ![i] = next]
    /\ ret' = [op |-> "with_" \o field, inst |-> i, val |-> next]
    /\ called' = [called EXCEPT ![i] = @ \cup {field}]
    /\ lastArg' = [lastArg EXCEPT ![i][field] = Some(arg)]
    /\ UNCHANGED <<dom0, decoderVars>>

WithDomainId(i, x) == Setter(i, "domain_id", x, with_domain_id(reqs[i], x))

WithSubdomain(i, x) == Setter(i, "subdomain", x, with_subdomain(reqs[i], x))

WithRecordType(i, x) == Setter(i, "record_type", x, with_record_type(reqs[i], x))

WithRecordLine(i, x) == Setter(i, "record_line", x, with_record_line(reqs[i], x))

WithRecordLineId(i, x) == Setter(i, "record_line_id", x, with_record_line_id(reqs[i], x))

WithGroupId(i, x) == Setter(i, "group_id", x, with_group_id(reqs[i], x))

WithKeyword(i, x) == Setter(i, "keyword", x, with_keyword(reqs[i], x))

WithSortField(i, x) == Setter(i, "sort_field", x, with_sort_field(reqs[i], x))

WithSortType(i, x) == Setter(i, "sort_type", x, with_sort_type(reqs[i], x))

WithOffset(i, x) == Setter(i, "offset", x, with_offset(reqs[i], x))

WithLimit(i, x) == Setter(i, "limit", x, with_limit(reqs[i], x))

\* an accessor that takes the limit out of the descriptor it reads
AccessorTaking(i, op, val) ==
    /\ ret' = [op |-> op, inst |-> i, val |-> val]
    /\ reqs' = [reqs EXCEPT ![i].limit = None]
    /\ UNCHANGED <<calls, called, lastArg, dom0, decoderVars>>

\* a call through &self: the descriptor is only read
Accessor(i, op, val) ==
    /\ ret' = [op |-> op, inst |-> i, val |-> val]
    /\ UNCHANGED <<reqs, calls, called, lastArg, dom0, decoderVars>>

CallService(i) == Accessor(i, "service", service(reqs[i]))

CallAction(i) == Accessor(i, "action", action(reqs[i]))

CallVersion(i) == Accessor(i, "version", version(reqs[i]))

CallRegion(i) == Accessor(i, "region", region(reqs[i]))

CallPayload(i) == Accessor(i, "payload", payload(reqs[i]))

InitBuilder(insts, budget) ==
    /\ dom0 \in [insts -> Domains]
    /\ reqs = [i \in insts |-> new(dom0[i])]
    /\ ret = NoRet
    /\ calls = budget
    /\ called = [i \in insts |-> {}]
    /\ lastArg = [i \in insts |-> [f \in OptFields |-> None]]

IdleDecoder ==
    /\ doc = JNull
    /\ out = None
    /\ edits = 0

Init == InitBuilder({1}, MaxCalls) /\ IdleDecoder

InitMulti == InitBuilder({1, 2}, MaxCallsMulti) /\ IdleDecoder

Next ==
    \/ \E i \in DOMAIN reqs, x \in U64s : WithDomainId(i, x)
    \/ \E i \in DOMAIN reqs, x \in Strs : WithSubdomain(i, x)
    \/ \E i \in DOMAIN reqs, x \in Strs : WithRecordType(i, x)
    \/ \E i \in DOMAIN reqs, x \in Strs : WithRecordLine(i, x)
    \/ \E i \in DOMAIN reqs, x \in Strs : WithRecordLineId(i, x)
    \/ \E i \in DOMAIN reqs, x \in U64s : WithGroupId(i, x)
    \/ \E i \in DOMAIN reqs, x \in Strs : WithKeyword(i, x)
    \/ \E i \in DOMAIN reqs, x \in Strs : WithSortField(i, x)
    \/ \E i \in DOMAIN reqs, x \in Strs : WithSortType(i, x)
    \/ \E i \in DOMAIN reqs, x \in U32s : WithOffset(i, x)
    \/ \E i \in DOMAIN reqs, x \in U32s : WithLimit(i, x)
    \/ \E i \in DOMAIN reqs : CallService(i)
    \/ \E i \in DOMAIN reqs : CallAction(i)
    \/ \E i \in DOMAIN reqs : CallVersion(i)
    \/ \E i \in DOMAIN reqs : CallRegion(i)
    \/ \E i \in DOMAIN reqs : CallPayload(i)

Spec == Init /\ [][Next]_vars

SpecMulti == InitMulti /\ [][Next]_vars

(***************************************************************************)
(* serde_json::from_str::<DomainRecordListResponse>.  A decode returns     *)
(* Result<T, serde_json::Error>: Ok(x) or Err, nothing in between.         *)
(* Integers are the non-negative JSON numbers; the upper limits of u32 and *)
(* u64 lie beyond the numbers drawn here.  The documents drawn here hold   *)
(* no array where a struct is expected.                                    *)
(***************************************************************************)
Err == [ok |-> FALSE]

Ok(x) == [ok |-> TRUE, v |-> x]

\* a field of a non-Option type: a missing key, null or a value of another
\* type is an error
de_u64(v) == IF v.t = "num" /\ v.n >= 0 THEN Ok(v.n) ELSE Err

de_u32(v) == IF v.t = "num" /\ v.n >= 0 THEN Ok(v.n) ELSE Err

de_String(v) == IF v.t = "str" THEN Ok(v.s) ELSE Err

de_bool(v) == IF v.t = "bool" THEN Ok(v.b) ELSE Err

\* Option<T> normalising an empty value to None
de_Option_blank(v, r) ==
    IF v.t = "missing" \/ v.t = "null" THEN Ok(None)
    ELSE IF ~r.ok THEN Err
    ELSE IF v.t = "num" THEN (IF v.n = 0 THEN Ok(None) ELSE Ok(Some(r.v)))
    ELSE IF v.t = "str" THEN (IF v.s = "" THEN Ok(None) ELSE Ok(Some(r.v)))
    ELSE Ok(Some(r.v))

\* Option<T>: a missing key and null are None, anything else is
\* Some(T::deserialize(v)); r is T::deserialize(v)
de_Option(v, r) ==
    IF v.t = "missing" \/ v.t = "null" THEN Ok(None)
    ELSE IF r.ok THEN Ok(Some(r.v)) ELSE Err

\* the value under key k while a struct is read from a JSON object: Missing
\* when the object has no such key
Missing == [t |-> "missing"]

Lookup(obj, k) == IF k \in DOMAIN obj.m THEN obj.m[k] ELSE Missing

RequiredRecordKeys ==
    {"RecordId", "Value", "Status", "UpdatedOn", "Name", "Line", "LineId",
     "Type", "TTL", "DefaultNS"}

OptionalRecordKeys == {"Weight", "MonitorStatus", "Remark", "MX"}

RecordKeys == RequiredRecordKeys \cup OptionalRecordKeys

CountKeys == {"SubdomainCount", "ListCount", "TotalCount"}

ResultKeys == {"RecordCountInfo", "RecordList", "RequestId"}

de_RecordListItem(v) ==
    IF v.t # "obj" THEN Err
    ELSE
      LET f == [k \in RecordKeys |->
                  CASE k = "RecordId" -> de_u64(Lookup(v, k))
                    [] k = "Value" -> de_String(Lookup(v, k))
                    [] k = "Status" -> de_String(Lookup(v, k))
                    [] k = "UpdatedOn" -> de_String(Lookup(v, k))
                    [] k = "Name" -> de_String(Lookup(v, k))
                    [] k = "Line" -> de_String(Lookup(v, k))
                    [] k = "LineId" -> de_String(Lookup(v, k))
                    [] k = "Type" -> de_String(Lookup(v, k))
                    [] k = "Weight" -> de_Option(Lookup(v, k), de_u32(Lookup(v, k)))
                    [] k = "MonitorStatus" -> de_Option(Lookup(v, k), de_String(Lookup(v, k)))
                    [] k = "Remark" -> de_Option(Lookup(v, k), de_String(Lookup(v, k)))
                    [] k = "TTL" -> de_u32(Lookup(v, k))
                    [] k = "MX" -> de_Option(Lookup(v, k), de_u32(Lookup(v, k)))
                    [] k = "DefaultNS" -> de_bool(Lookup(v, k))]
      IN  IF \E k \in RecordKeys : ~f[k].ok THEN Err
          ELSE Ok([record_id |-> f["RecordId"].v, value |-> f["Value"].v,
                   status |-> f["Status"].v, updated_on |-> f["UpdatedOn"].v,
                   name |-> f["Name"].v, line |-> f["Line"].v,
                   line_id |-> f["LineId"].v, record_type |-> f["Type"].v,
                   weight |-> f["Weight"].v,
                   monitor_status |-> f["MonitorStatus"].v,
                   remark |-> f["Remark"].v, ttl |-> f["TTL"].v,
                   mx |-> f["MX"].v, default_ns |-> f["DefaultNS"].v])

\* RecordCountInfo clamping the page count to the total
de_RecordCountInfo_clamped(v) ==
    IF v.t # "obj" THEN Err
    ELSE
      LET f == [k \in CountKeys |-> de_u32(Lookup(v, k))]
      IN  IF \E k \in CountKeys : ~f[k].ok THEN Err
          ELSE Ok([subdomain_count |-> f["SubdomainCount"].v,
                   list_count |-> IF f["ListCount"].v <= f["TotalCount"].v
                                  THEN f["ListCount"].v ELSE f["TotalCount"].v,
                   total_count |-> f["TotalCount"].v])

de_RecordCountInfo(v) ==
    IF v.t # "obj" THEN Err
    ELSE
      LET f == [k \in CountKeys |-> de_u32(Lookup(v, k))]
      IN  IF \E k \in CountKeys : ~f[k].ok THEN Err
          ELSE Ok([subdomain_count |-> f["SubdomainCount"].v,
                   list_count |-> f["ListCount"].v,
                   total_count |-> f["TotalCount"].v])

\* the values of the results of s that are Ok, in order
RECURSIVE SelectOk(_)
SelectOk(s) ==
    IF s = <<>> THEN <<>>
    ELSE IF Head(s).ok THEN <<Head(s).v>> \o SelectOk(Tail(s))
    ELSE SelectOk(Tail(s))

\* Vec<RecordListItem> skipping the records that fail to decode
de_record_list_lenient(v) ==
    IF v.t # "arr" THEN Err
    ELSE Ok(SelectOk([i \in 1..Len(v.a) |-> de_RecordListItem(v.a[i])]))

\* Vec<RecordListItem> returning the records newest first
de_record_list_reversed(v) ==
    IF v.t # "arr" THEN Err
    ELSE
      LET rs == [i \in 1..Len(v.a) |-> de_RecordListItem(v.a[i])]
      IN  IF \E i \in 1..Len(v.a) : ~rs[i].ok THEN Err
          ELSE Ok([i \in 1..Len(v.a) |-> rs[Len(v.a) + 1 - i].v])

\* Vec<RecordListItem>: every element in order, the first error ends the decode
de_record_list(v) ==
    IF v.t # "arr" THEN Err
    ELSE
      LET rs == [i \in 1..Len(v.a) |-> de_RecordListItem(v.a[i])]
      IN  IF \E i \in 1..Len(v.a) : ~rs[i].ok THEN Err
          ELSE Ok([i \in 1..Len(v.a) |-> rs[i].v])

de_DomainRecordListResult(v) ==
    IF v.t # "obj" THEN Err
    ELSE
      LET record_count_info == de_RecordCountInfo(Lookup(v, "RecordCountInfo"))
          record_list == de_record_list(Lookup(v, "RecordList"))
          request_id == de_String(Lookup(v, "RequestId"))
      IN  IF record_count_info.ok /\ record_list.ok /\ request_id.ok
          THEN Ok([record_count_info |-> record_count_info.v,
                   record_list |-> record_list.v,
                   request_id |-> request_id.v])
          ELSE Err

de_DomainRecordListResponse(v) ==
    IF v.t # "obj" THEN Err
    ELSE
      LET response == de_DomainRecordListResult(Lookup(v, "Response"))
      IN  IF response.ok THEN Ok([response |-> response.v]) ELSE Err

from_str(json) == de_DomainRecordListResponse(json)

(***************************************************************************)
(* Response documents.  A template is the response of the repository's     *)
(* tests: record 1 carries every optional field, record 2 none.  The       *)
(* provider may then leave out a field or send another value in its place. *)
(***************************************************************************)
FullRecord ==
    JObj([k \in RecordKeys |->
            CASE k = "RecordId" -> JNum(1)
              [] k = "Value" -> JStr("1.1.1.1")
              [] k = "Status" -> JStr("ENABLE")
              [] k = "UpdatedOn" -> JStr("2021-03-28 11:27:09")
              [] k = "Name" -> JStr("m")
              [] k = "Line" -> JStr("default")
              [] k = "LineId" -> JStr("0")
              [] k = "Type" -> JStr("A")
              [] k = "Weight" -> JNum(20)
              [] k = "MonitorStatus" -> JStr("OK")
              [] k = "Remark" -> JStr("api")
              [] k = "TTL" -> JNum(600)
              [] k = "MX" -> JNum(10)
              [] k = "DefaultNS" -> JBool(TRUE)])

MinimalRecord ==
    JObj([k \in RequiredRecordKeys |->
            CASE k = "RecordId" -> JNum(2)
              [] k = "Value" -> JStr("2.2.2.2")
              [] k = "Status" -> JStr("ENABLE")
              [] k = "UpdatedOn" -> JStr("2021-03-28 11:27:10")
              [] k = "Name" -> JStr("www")
              [] k = "Line" -> JStr("default")
              [] k = "LineId" -> JStr("0")
              [] k = "Type" -> JStr("A")
              [] k = "TTL" -> JNum(600)
              [] k = "DefaultNS" -> JBool(FALSE)])

TemplateRecord(id) == IF id = 1 THEN FullRecord ELSE MinimalRecord

TemplateDoc(ids) ==
    JObj([k \in {"Response"} |->
      JObj([r \in ResultKeys |->
        CASE r = "RecordCountInfo" ->
               JObj([c \in CountKeys |->
                       IF c = "TotalCount" THEN JNum(10) ELSE JNum(2)])
          [] r = "RecordList" ->
               JArr([i \in 1..Len(ids) |-> TemplateRecord(ids[i])])
          [] r = "RequestId" -> JStr("req-123456")])])

Templates ==
    UNION {{TemplateDoc(ids) : ids \in [1..n -> {1, 2}]} : n \in 0..MaxRecords}

\* what a field may hold instead of its template value
Replacements == {JNull, JNum(0), JStr("")}

\* obj with key k removed (x = None) or set to x.v
Edited(obj, k, x) ==
    IF x.some THEN Insert(obj, k, x.v)
    ELSE JObj([key \in DOMAIN obj.m \ {k} |-> obj.m[key]])

EditChoices == {None} \cup {Some(x) : x \in Replacements}

\* the response is still being written and the provider may deviate once more
Editable == ~out.some /\ edits < MaxEdits

CanEdit(obj, k, x) ==
    /\ obj.t = "obj"
    /\ IF k \notin DOMAIN obj.m THEN x.some
       ELSE IF x.some THEN obj.m[k] # x.v ELSE TRUE

ResponseOf(d) == d.m["Response"]

EditEnvelope(x) ==
    /\ Editable
    /\ CanEdit(doc, "Response", x)
    /\ doc' = Edited(doc, "Response", x)
    /\ edits' = edits + 1
    /\ UNCHANGED <<out, builderVars>>

EditResult(k, x) ==
    /\ Editable
    /\ HasKey(doc, "Response")
    /\ CanEdit(ResponseOf(doc), k, x)
    /\ doc' = Insert(doc, "Response", Edited(ResponseOf(doc), k, x))
    /\ edits' = edits + 1
    /\ UNCHANGED <<out, builderVars>>

EditCountInfo(k, x) ==
    /\ Editable
    /\ HasKey(doc, "Response")
    /\ HasKey(ResponseOf(doc), "RecordCountInfo")
    /\ LET res == ResponseOf(doc)
           cnt == res.m["RecordCountInfo"]
       IN  /\ CanEdit(cnt, k, x)
           /\ doc' = Insert(doc, "Response",
                        Insert(res, "RecordCountInfo", Edited(cnt, k, x)))
    /\ edits' = edits + 1
    /\ UNCHANGED <<out, builderVars>>

EditRecord(i, k, x) ==
    /\ Editable
    /\ HasKey(doc, "Response")
    /\ HasKey(ResponseOf(doc), "RecordList")
    /\ LET res == ResponseOf(doc)
           lst == res.m["RecordList"]
       IN  /\ lst.t = "arr"
           /\ i \in 1..Len(lst.a)
           /\ CanEdit(lst.a[i], k, x)
           /\ doc' = Insert(doc, "Response",
                        Insert(res, "RecordList",
                          JArr([lst.a EXCEPT ![i] = Edited(lst.a[i], k, x)])))
    /\ edits' = edits + 1
    /\ UNCHANGED <<out, builderVars>>

Decode ==
    /\ ~out.some
    /\ out' = Some(from_str(doc))
    /\ UNCHANGED <<doc, edits, builderVars>>

IdleBuilder ==
    /\ dom0 = [i \in {1} |-> "dnspod.cn"]
    /\ reqs = [i \in {1} |-> new(dom0[i])]
    /\ ret = NoRet
    /\ calls = 0
    /\ called = [i \in {1} |-> {}]
    /\ lastArg = [i \in {1} |-> [f \in OptFields |-> None]]

InitDecode ==
    /\ doc \in Templates
    /\ out = None
    /\ edits = 0
    /\ IdleBuilder

NextDecode ==
    \/ \E x \in EditChoices : EditEnvelope(x)
    \/ \E k \in ResultKeys, x \in EditChoices : EditResult(k, x)
    \/ \E k \in CountKeys, x \in EditChoices : EditCountInfo(k, x)
    \/ \E i \in 1..MaxRecords, k \in RecordKeys, x \in EditChoices : EditRecord(i, k, x)
    \/ Decode

SpecDecode == InitDecode /\ [][NextDecode]_vars

(***************************************************************************)
(* Properties of the builder and of the Endpoint implementation.           *)
(***************************************************************************)
\* the provider's key of each optional field
KeyOf ==
    [f \in OptFields |->
       CASE f = "domain_id" -> "DomainId"
         [] f = "subdomain" -> "Subdomain"
         [] f = "record_type" -> "RecordType"
         [] f = "record_line" -> "RecordLine"
         [] f = "record_line_id" -> "RecordLineId"
         [] f = "group_id" -> "GroupId"
         [] f = "keyword" -> "Keyword"
         [] f = "sort_field" -> "SortField"
         [] f = "sort_type" -> "SortType"
         [] f = "offset" -> "Offset"
         [] f = "limit" -> "Limit"]

NumericFields == {"domain_id", "group_id", "offset", "limit"}

PayloadKeysOk(i, p) ==
    /\ p.t = "obj"
    /\ "Domain" \in DOMAIN p.m
    /\ \A f \in OptFields : KeyOf[f] \in DOMAIN p.m <=> f \in called[i]
    /\ DOMAIN p.m \subseteq {"Domain"} \cup {KeyOf[f] : f \in OptFields}
    /\ \A k \in DOMAIN p.m : p.m[k].t # "null"

\* C1: the payload of a descriptor always holds Domain, holds the key of an
\* optional field exactly when that field's setter was called, holds no
\* other key and no null.
C1_PayloadKeysIffSet ==
    /\ \A i \in DOMAIN reqs : PayloadKeysOk(i, payload(reqs[i]))
    /\ ret.op = "payload" => PayloadKeysOk(ret.inst, ret.val)

\* payload() returned for a descriptor with three or more fields set, one of
\* them Offset = 0
C1_Witness ==
    /\ ret.op = "payload"
    /\ Cardinality(called[ret.inst]) >= 3
    /\ lastArg[ret.inst]["offset"] = Some(0)

\* Value::as_u64 and Value::as_str, the readers of a payload entry
as_u64(v) == IF v.t = "num" THEN Some(v.n) ELSE None

as_str(v) == IF v.t = "str" THEN Some(v.s) ELSE None

\* the parameters read back from payload p, key by key
Derive(p) ==
    [f \in OptFields \cup {"domain"} |->
       IF f = "domain"
       THEN (IF "Domain" \in DOMAIN p.m THEN as_str(p.m["Domain"]) ELSE None)
       ELSE IF KeyOf[f] \notin DOMAIN p.m THEN None
       ELSE IF f \in NumericFields THEN as_u64(p.m[KeyOf[f]])
       ELSE as_str(p.m[KeyOf[f]])]

\* the parameters given to the builder of descriptor i
Given(i) ==
    [f \in OptFields \cup {"domain"} |->
       IF f = "domain" THEN Some(dom0[i]) ELSE lastArg[i][f]]

\* C2: reading the payload back key by key recovers the parameters the
\* descriptor was built with, 0 and the empty string included.
C2_RoundTrip ==
    /\ \A i \in DOMAIN reqs : Derive(payload(reqs[i])) = Given(i)
    /\ ret.op = "payload" => Derive(ret.val) = Given(ret.inst)

\* payload() returned for a descriptor built with Offset 0, an empty
\* Subdomain and a SortType
C2_Witness ==
    /\ ret.op = "payload"
    /\ lastArg[ret.inst]["offset"] = Some(0)
    /\ lastArg[ret.inst]["subdomain"] = Some("")
    /\ lastArg[ret.inst]["sort_type"].some

\* C3: action() of a descriptor fresh from new(domain) returns
\* "DomainRecordList".
C3_ActionIsDomainRecordList ==
    (ret.op = "action" /\ called[ret.inst] = {}) => ret.val = "DomainRecordList"

RoutingOk(i) ==
    /\ service(reqs[i]) = "dnspod"
    /\ version(reqs[i]) = "2021-03-23"
    /\ region(reqs[i]) = None
    /\ action(reqs[i]) = action(new(dom0[i]))

\* C4: whatever setters were called, service() is "dnspod", version() is
\* "2021-03-23", region() is None and action() is what it is on a fresh
\* descriptor.
C4_RoutingConstant ==
    /\ \A i \in DOMAIN reqs : RoutingOk(i)
    /\ ret.op = "service" => ret.val = "dnspod"
    /\ ret.op = "version" => ret.val = "2021-03-23"
    /\ ret.op = "region" => ret.val = None
    /\ ret.op = "action" => ret.val = action(new(dom0[ret.inst]))

\* action() returned for a descriptor whose record type and offset are set
C4_Witness ==
    /\ ret.op = "action"
    /\ {"record_type", "offset"} \subseteq called[ret.inst]

\* C9: every field of a descriptor holds the argument of the last setter
\* called for it, or None when none was, and the domain is the one given to
\* new.
C9_BuilderFrame ==
    \A i \in DOMAIN reqs :
       /\ reqs[i].domain = dom0[i]
       /\ \A f \in OptFields : reqs[i][f] = lastArg[i][f]
       /\ called[i] = {f \in OptFields : reqs[i][f].some}
       /\ called[i] = {} => reqs[i] = new(dom0[i])

\* with_record_line_id returned on a descriptor whose record line was set
\* before, to another value
C9_Witness ==
    /\ ret.op = "with_record_line_id"
    /\ lastArg[ret.inst]["record_line"].some
    /\ lastArg[ret.inst]["record_line"] # lastArg[ret.inst]["record_line_id"]
    /\ Cardinality(called[ret.inst]) >= 3

Succeeded == out.some /\ out.v.ok

\* the decoded DomainRecordListResult, when Succeeded
Decoded == out.v.v.response

\* the value under key k of the Response object of the document
RawOf(k) == ResponseOf(doc).m[k]

LacksKey(obj, keys) == obj.t = "obj" /\ \E k \in keys : k \notin DOMAIN obj.m

\* document d lacks the Response field or a required field below it
Lacks(d) ==
    IF LacksKey(d, {"Response"}) THEN TRUE
    ELSE IF ~HasKey(d, "Response") THEN FALSE
    ELSE LET r == ResponseOf(d)
         IN  IF LacksKey(r, ResultKeys) THEN TRUE
             ELSE IF r.t # "obj" THEN FALSE
             ELSE \/ LacksKey(r.m["RecordCountInfo"], CountKeys)
                  \/ /\ r.m["RecordList"].t = "arr"
                     /\ \E i \in 1..Len(r.m["RecordList"].a) :
                          LacksKey(r.m["RecordList"].a[i], RequiredRecordKeys)

\* C5: decoding a document that lacks the Response field or a required
\* field, in any one record too, ends in Err, which carries no value; a
\* decode that succeeds returns as many records as the document holds.
C5_DecodeAllOrNothing ==
    out.some =>
       /\ Lacks(doc) => out.v = Err
       /\ out.v.ok => Len(Decoded.record_list) = Len(RawOf("RecordList").a)

\* a two-record document whose second record alone lacks TTL was decoded
C5_Witness ==
    /\ out.some
    /\ HasKey(doc, "Response")
    /\ HasKey(ResponseOf(doc), "RecordList")
    /\ RawOf("RecordList").t = "arr"
    /\ Len(RawOf("RecordList").a) = 2
    /\ ~LacksKey(RawOf("RecordList").a[1], RequiredRecordKeys)
    /\ LacksKey(RawOf("RecordList").a[2], {"TTL"})
    /\ out.v = Err

\* the record field decoded from each optional key
FieldOf ==
    [k \in OptionalRecordKeys |->
       CASE k = "Weight" -> "weight"
         [] k = "MonitorStatus" -> "monitor_status"
         [] k = "Remark" -> "remark"
         [] k = "MX" -> "mx"]

\* the number or string a JSON scalar carries
Scalar(v) == IF v.t = "num" THEN v.n ELSE v.s

\* C6, as stated: an omitted optional field decodes to None and a field that
\* is present decodes to Some of exactly the received value.
C6_PresentIsSome ==
    Succeeded =>
       \A i \in 1..Len(RawOf("RecordList").a), k \in OptionalRecordKeys :
          LET raw == RawOf("RecordList").a[i]
              got == Decoded.record_list[i][FieldOf[k]]
          IN  IF k \notin DOMAIN raw.m THEN got = None
              ELSE got.some /\ got = Some(Scalar(raw.m[k]))

\* C6, amended: an optional field that is omitted or null decodes to None,
\* and one present with another value decodes to Some of exactly that value.
C6_OptionalFields ==
    Succeeded =>
       \A i \in 1..Len(RawOf("RecordList").a), k \in OptionalRecordKeys :
          LET raw == RawOf("RecordList").a[i]
              got == Decoded.record_list[i][FieldOf[k]]
          IN  IF k \notin DOMAIN raw.m THEN got = None
              ELSE IF raw.m[k] = JNull THEN got = None
              ELSE got = Some(Scalar(raw.m[k]))

\* a decoded response in which one record has Weight 0 and another has no
\* Weight: Some(0) beside None
C6_Witness ==
    /\ Succeeded
    /\ Len(Decoded.record_list) = 2
    /\ Lookup(RawOf("RecordList").a[1], "Weight") = JNum(0)
    /\ "Weight" \notin DOMAIN RawOf("RecordList").a[2].m
    /\ Decoded.record_list[1].weight = Some(0)
    /\ Decoded.record_list[2].weight = None

\* C7, as stated: every decoded response has list_count <= total_count.
C7_ListCountLeTotal ==
    Succeeded =>
       Decoded.record_count_info.list_count <= Decoded.record_count_info.total_count

\* C7, amended: the decoded counts are the numbers of the document, so
\* list_count <= total_count holds exactly when ListCount <= TotalCount does
\* in the document.
C7_CountsAsReceived ==
    Succeeded =>
       LET raw == RawOf("RecordCountInfo")
           got == Decoded.record_count_info
       IN  /\ got.subdomain_count = raw.m["SubdomainCount"].n
           /\ got.list_count = raw.m["ListCount"].n
           /\ got.total_count = raw.m["TotalCount"].n
           /\ got.list_count <= got.total_count
                <=> raw.m["ListCount"].n <= raw.m["TotalCount"].n

\* a document with ListCount above TotalCount was decoded
C7_Witness ==
    /\ Succeeded
    /\ Decoded.record_count_info.list_count > Decoded.record_count_info.total_count

\* C8: a decoded record_list is as long as the RecordList array and its i-th
\* element is the decoding of the i-th record of the array.
C8_OrderPreserved ==
    Succeeded =>
       LET raw == RawOf("RecordList").a
           got == Decoded.record_list
       IN  /\ Len(got) = Len(raw)
           /\ \A i \in 1..Len(raw) :
                 /\ de_RecordListItem(raw[i]) = Ok(got[i])
                 /\ got[i].record_id = raw[i].m["RecordId"].n
                 /\ got[i].name = raw[i].m["Name"].s
                 /\ got[i].value = raw[i].m["Value"].s

\* a document listing record 2 before record 1 was decoded
C8_Witness ==
    /\ Succeeded
    /\ Len(Decoded.record_list) = 2
    /\ RawOf("RecordList").a[1].m["RecordId"] = JNum(2)
    /\ RawOf("RecordList").a[2].m["RecordId"] = JNum(1)
    /\ Decoded.record_list[1].record_id = 2
    /\ Decoded.record_list[2].record_id = 1

====
